---- MODULE Spec2Model ----
(***************************************************************************)
(* Model of the optical-density pipeline of src/Classes/Analysis.py        *)
(* (class AnalyseOD): calculate_OD, fit_cloud_profile_gaussian1D and       *)
(* fit_cloud_profile_gaussian2D, as driven by src/main.py and              *)
(* src/runningclasses.py.                                                  *)
(*                                                                         *)
(* Numbers.  A float is modelled by an exact rational <<n, d>> with d > 0  *)
(* in lowest terms; the IEEE special values numpy produces are the pairs   *)
(* with d = 0: <<0,0>> is NaN, <<1,0>> is +inf, <<-1,0>> is -inf.  Rounding *)
(* error is not modelled.                                                  *)
(*                                                                         *)
(* Arrays.  A 2-D numpy array of shape (H, W) is a function                *)
(* [0..H-1 -> [0..W-1 -> Val]], indexed arr[y][x] as in the source.        *)
(*                                                                         *)
(* The camera side is modelled apart from the pipeline: the acquisition    *)
(* loop of src/Classes/TrigExtThread.py, src/Classes/MainWindow.py and     *)
(* GuppyPro.startAcquisition, and the VimbaDaemon thread of                *)
(* src/Classes/GuppyCam.py.  Each thread is a position variable and one    *)
(* action per statement group between two points where another thread can *)
(* be seen to act; a threading.Event is a BOOLEAN.                         *)
(***************************************************************************)
EXTENDS Integers, Sequences, FiniteSets, TLC

\* ---------------------------------------------------------------- bounds
\* image width and height in pixels
W == 2
H == 2
\* pixel intensities are 0 or 10^k, k in 0..MaxExp
MaxExp == 1
\* number of calculate_OD invocations on one AnalyseOD object
MaxCalls == 2
\* scale factors c in 1..MaxScale for the scaling relation
MaxScale == 2
\* frames the camera delivers to the handler during one startAcquisition
MaxFrames == 3
\* Vimba instances the daemon thread opens
MaxInstances == 3
\* stop() and restart() calls the daemon's owner makes
MaxOps == 2

\* _acquire_images(self, N_IMAGES = 2)
N_IMAGES == 2

\* ------------------------------------------------------- exact arithmetic
Abs(i) == IF i < 0 THEN -i ELSE i

RECURSIVE GCD(_, _)
GCD(a, b) == IF b = 0 THEN a ELSE GCD(b, a % b)

\* the float with value n/d (d # 0), in lowest terms with positive denominator
Rat(n, d) ==
    LET g == GCD(Abs(n), Abs(d))
        s == IF d < 0 THEN -1 ELSE 1
    IN  <<(s * n) \div g, (s * d) \div g>>

NaN  == <<0, 0>>
PInf == <<1, 0>>
NInf == <<-1, 0>>
Zero == <<0, 1>>
One  == <<1, 1>>
Int2F(i) == <<i, 1>>

IsNaN(a)    == a = NaN
IsFinite(a) == a[2] # 0
Sign(a)     == IF a[1] > 0 THEN 1 ELSE IF a[1] < 0 THEN -1 ELSE 0

\* IEEE addition
FAdd(a, b) ==
    IF IsNaN(a) \/ IsNaN(b) THEN NaN
    ELSE IF ~IsFinite(a) /\ ~IsFinite(b) THEN (IF a = b THEN a ELSE NaN)
    ELSE IF ~IsFinite(a) THEN a
    ELSE IF ~IsFinite(b) THEN b
    ELSE LET g == GCD(a[2], b[2])
         IN  Rat(a[1] * (b[2] \div g) + b[1] * (a[2] \div g), (a[2] \div g) * b[2])

\* IEEE multiplication
FMul(a, b) ==
    IF IsNaN(a) \/ IsNaN(b) THEN NaN
    ELSE IF ~IsFinite(a) \/ ~IsFinite(b)
         THEN (IF Sign(a) * Sign(b) = 0 THEN NaN
               ELSE IF Sign(a) * Sign(b) > 0 THEN PInf ELSE NInf)
    ELSE LET g1 == GCD(Abs(a[1]), b[2])
             g2 == GCD(Abs(b[1]), a[2])
         IN  Rat((a[1] \div g1) * (b[1] \div g2), (a[2] \div g2) * (b[2] \div g1))

\* IEEE division (x/0 is +-inf, 0/0 and inf/inf are NaN)
FDiv(a, b) ==
    IF IsNaN(a) \/ IsNaN(b) THEN NaN
    ELSE IF ~IsFinite(a) /\ ~IsFinite(b) THEN NaN
    ELSE IF ~IsFinite(b) THEN Zero
    ELSE IF b = Zero
         THEN (IF Sign(a) = 0 THEN NaN ELSE IF Sign(a) > 0 THEN PInf ELSE NInf)
    ELSE IF ~IsFinite(a) THEN (IF Sign(a) * Sign(b) > 0 THEN PInf ELSE NInf)
    ELSE FMul(a, Rat(b[2], b[1]))

\* a < b on floats; every comparison with NaN is false
FLess(a, b) ==
    IF IsNaN(a) \/ IsNaN(b) THEN FALSE
    ELSE IF a = b THEN FALSE
    ELSE IF a = NInf \/ b = PInf THEN TRUE
    ELSE IF a = PInf \/ b = NInf THEN FALSE
    ELSE LET g == GCD(a[2], b[2])
         IN  a[1] * (b[2] \div g) < b[1] * (a[2] \div g)

\* numpy's x == 0 and x != 0 on one element (NaN and inf are != 0)
IsZero(a)  == a = Zero
NonZero(a) == a # Zero

\* np.log10 of one element.  Exact on powers of ten, which is all the model's
\* intensity ratios are; between two powers of ten it interpolates linearly.
RECURSIVE Log10Pos(_)
Log10Pos(q) ==
    IF ~FLess(q, Int2F(10)) THEN FAdd(One, Log10Pos(FDiv(q, Int2F(10))))
    ELSE IF FLess(q, One) THEN FAdd(Int2F(-1), Log10Pos(FMul(q, Int2F(10))))
    ELSE FDiv(FAdd(q, Int2F(-1)), Int2F(9))

Log10(q) ==
    IF IsNaN(q) \/ q = NInf \/ (IsFinite(q) /\ Sign(q) < 0) THEN NaN
    ELSE IF q = PInf THEN PInf
    ELSE IF q = Zero THEN NInf
    ELSE Log10Pos(q)

\* ------------------------------------------------------------ numpy helpers
\* an attribute left at its default None, and a local not yet assigned
None == <<>>

RECURSIVE Pow10(_)
Pow10(k) == IF k = 0 THEN 1 ELSE 10 * Pow10(k - 1)

\* the indices a Python slice  start:stop  selects on an axis of length n
SliceIdx(start, stop, n) ==
    LET clip(i) == IF i < 0 THEN (IF i + n < 0 THEN 0 ELSE i + n)
                   ELSE IF i > n THEN n ELSE i
    IN  {i \in 0..(n - 1) : clip(start) <= i /\ i < clip(stop)}

Rows == 0..(H - 1)
Cols == 0..(W - 1)
Pos  == Rows \X Cols

\* np.sum over the elements arr[y][x], <<y, x>> in P
RECURSIVE SumOver(_, _)
SumOver(arr, P) ==
    IF P = {} THEN Zero
    ELSE LET p == CHOOSE q \in P : TRUE
         IN  FAdd(arr[p[1]][p[2]], SumOver(arr, P \ {p}))

\* np.mean of the sub-array arr[ys, xs]; the mean of an empty array is NaN
MeanOver(arr, P) ==
    IF P = {} THEN NaN ELSE FDiv(SumOver(arr, P), Int2F(Cardinality(P)))

\* AMax with the comparison the wrong way round: it returns the minimum
AMaxAsMin(arr) ==
    LET vals == {arr[p[1]][p[2]] : p \in Pos}
    IN  IF NaN \in vals THEN NaN
        ELSE CHOOSE m \in vals : \A v \in vals : ~FLess(v, m)

\* np.amax of the whole array; a NaN anywhere makes the result NaN
AMax(arr) ==
    LET vals == {arr[p[1]][p[2]] : p \in Pos}
    IN  IF NaN \in vals THEN NaN
        ELSE CHOOSE m \in vals : \A v \in vals : ~FLess(m, v)

\* ------------------------------------------------------------ calculate_OD
\* the floor written into self.dark_image
Floor == <<1, 1000000>>

\* roi = self.dark_image[y_start:y_end, x_start:x_end], as a set of <<y, x>>
NormRegion(roi) == SliceIdx(roi[3], roi[4], H) \X SliceIdx(roi[1], roi[2], W)

\* image / mean_value, elementwise (a new array)
Normalize(img, m) ==
    [y \in DOMAIN img |-> [x \in DOMAIN img[y] |-> FDiv(img[y][x], m)]]

\* NormalizedDark with the division left out
DarkLeftRaw(dark, m) == dark

\* normalized_dark_image = self.dark_image / mean_value
NormalizedDark(dark, m) == Normalize(dark, m)

\* NormalizedBright with the division left out
BrightLeftRaw(bright, m) == bright

\* normalized_bright_image = self.bright_image / mean_value
NormalizedBright(bright, m) == Normalize(bright, m)

\* self.dark_image[self.dark_image == 0] = 1e-6, in place
ClampDark(img) ==
    [y \in Rows |-> [x \in Cols |-> IF IsZero(img[y][x]) THEN Floor ELSE img[y][x]]]

\* ValidMask with | in place of &
ValidMaskEither(nd, nb) ==
    [y \in Rows |-> [x \in Cols |-> NonZero(nd[y][x]) \/ NonZero(nb[y][x])]]

\* mask = (normalized_dark_image != 0) & (normalized_bright_image != 0)
ValidMask(nd, nb) ==
    [y \in Rows |-> [x \in Cols |-> NonZero(nd[y][x]) /\ NonZero(nb[y][x])]]

\* optical_density = zeros_like(...); optical_density[mask] = log10(nb / nd)
RawOD(nd, nb, m) ==
    [y \in Rows |-> [x \in Cols |->
        IF m[y][x] THEN Log10(FDiv(nb[y][x], nd[y][x])) ELSE Zero]]

\* SubstituteMax with the assignment left out
SubstituteMaxSkipped(od, mx) == od

\* optical_density[optical_density == 0] = max_OD
SubstituteMax(od, mx) ==
    [y \in Rows |-> [x \in Cols |-> IF IsZero(od[y][x]) THEN mx ELSE od[y][x]]]

\* arr.shape of a two-dimensional array
ShapeOf(arr) == <<Cardinality(DOMAIN arr), Cardinality(DOMAIN arr[0])>>

\* numpy's broadcasting rule for an elementwise operation on two arrays: on
\* each axis the lengths are equal or one of them is 1
Broadcastable(s1, s2) ==
    \A k \in 1..2 : s1[k] = s2[k] \/ s1[k] = 1 \/ s2[k] = 1
BroadcastShape(s1, s2) ==
    [k \in 1..2 |-> IF s1[k] = 1 THEN s2[k] ELSE s1[k]]

\* arr as the elementwise operation sees it at the shape s: an axis of
\* length 1 is repeated
BroadcastTo(arr, s) ==
    IF ShapeOf(arr) = s THEN arr
    ELSE [y \in 0..(s[1] - 1) |-> [x \in 0..(s[2] - 1) |->
            arr[IF ShapeOf(arr)[1] = 1 THEN 0 ELSE y]
               [IF ShapeOf(arr)[2] = 1 THEN 0 ELSE x]]]

\* BoolIndexMismatch for an indexing that broadcasts the array to the mask
BoolIndexBroadcasts(maskshape, arrshape) == FALSE

\* arr[mask] with a boolean mask raises IndexError unless the mask has the
\* shape of arr
BoolIndexMismatch(maskshape, arrshape) == maskshape # arrshape

\* the exception calculate_OD ends in for frames of the shapes sd and sb, ""
\* for none: line 45 broadcasts the two normalized frames (ValueError when it
\* cannot), line 48 indexes both of them and the zeros_like(dark) array with
\* the mask
CalcODError(sd, sb) ==
    IF ~Broadcastable(sd, sb) THEN "ValueError"
    ELSE IF \/ BoolIndexMismatch(BroadcastShape(sd, sb), sb)
            \/ BoolIndexMismatch(BroadcastShape(sd, sb), sd)
         THEN "IndexError"
         ELSE ""

\* the body of calculate_OD: every local, the object's dark image after the
\* call and the returned map
CalcOD(dark, bright, nroi) ==
    LET m   == MeanOver(dark, NormRegion(nroi))
        nd  == NormalizedDark(dark, m)
        nb  == NormalizedBright(bright, m)
        msk == ValidMask(nd, nb)
        raw == RawOD(nd, nb, msk)
        mx  == AMax(raw)
    IN  [mean_value |-> m,
         normalized_dark_image |-> nd,
         normalized_bright_image |-> nb,
         dark_after |-> ClampDark(dark),
         mask |-> msk,
         optical_density |-> raw,
         max_OD |-> mx,
         ret |-> SubstituteMax(raw, mx)]

\* ------------------------------------------------------- the Gaussian fits
\* cross_section = 2.907e-13 m^2, in units of 1e-16 m^2
cross_section_e16 == 2907
\* the pixel pitch 8.46e-6 m, in units of 1e-8 m
pixel_pitch_e8 == 846

\* int(a / 2): Python's true division, truncated toward zero
HalfTrunc(a) == IF a >= 0 THEN a \div 2 ELSE -((-a) \div 2)

\* arr[i] on an axis of length n: a negative index counts from the end
IndexOK(i, n) == -n <= i /\ i < n
PyIndex(i, n) == IF i < 0 THEN i + n ELSE i

\* OD[r, :] and OD[:, c]
RowOf(od, r) == [x \in Cols |-> od[r][x]]
ColOf(od, c) == [y \in Rows |-> od[y][c]]

RECURSIVE SumVec(_, _)
SumVec(v, D) ==
    IF D = {} THEN Zero
    ELSE LET i == CHOOSE j \in D : TRUE IN FAdd(v[i], SumVec(v, D \ {i}))

VecMax(v) ==
    LET vals == {v[i] : i \in DOMAIN v}
    IN  IF NaN \in vals THEN NaN
        ELSE CHOOSE m \in vals : \A w \in vals : ~FLess(m, w)

VecMean(v) == FDiv(SumVec(v, DOMAIN v), Int2F(Cardinality(DOMAIN v)))

\* (np.amax(s), np.mean(s), np.std(s)); the standard deviation is a square
\* root, kept here as the one fact the solver's start depends on: whether it is 0
InitialGuess1D(s) ==
    [amplitude |-> VecMax(s), mean |-> VecMean(s),
     stddev_is_zero |-> \A i, j \in DOMAIN s : s[i] = s[j]]

\* Read1D with both slices taken at the ROI midpoints
Read1DAtMidpoint(od, roi) ==
    LET r == PyIndex(HalfTrunc(roi[4] - roi[3]), H)
        c == PyIndex(HalfTrunc(roi[2] - roi[1]), W)
    IN  [x |-> Cols, y |-> Rows,
         OD_x |-> RowOf(od, r), OD_y |-> ColOf(od, c),
         initial_guess_x |-> InitialGuess1D(RowOf(od, r)),
         initial_guess_y |-> InitialGuess1D(ColOf(od, c)),
         OD_prof_x |-> None, OD_prof_y |-> None]

\* what fit_cloud_profile_gaussian1D hands to curve_fit: the two slices, the
\* pixel-index ranges they are fitted over and the two initial guesses
Read1D(od, roi) ==
    LET r == PyIndex(roi[2] - roi[1], H)
        c == PyIndex(roi[3] - roi[4], W)
    IN  [x |-> Cols, y |-> Rows,
         OD_x |-> RowOf(od, r), OD_y |-> ColOf(od, c),
         initial_guess_x |-> InitialGuess1D(RowOf(od, r)),
         initial_guess_y |-> InitialGuess1D(ColOf(od, c)),
         OD_prof_x |-> None, OD_prof_y |-> None]

\* the row and the column determine_uncertainty is given (views of OD)
UncRow(roi) == PyIndex(HalfTrunc(roi[4] - roi[3]), H)
UncCol(roi) == PyIndex(HalfTrunc(roi[2] - roi[1]), W)

\* OD_prof[OD_prof == 0] = 1e-6 on the view OD[r, :] / OD[:, c]
ClampRow(od, r) ==
    [y \in Rows |-> [x \in Cols |->
        IF y = r /\ IsZero(od[y][x]) THEN Floor ELSE od[y][x]]]
ClampCol(od, c) ==
    [y \in Rows |-> [x \in Cols |->
        IF x = c /\ IsZero(od[y][x]) THEN Floor ELSE od[y][x]]]

\* OD[OD == 0] = 1e-6
ClampAll(od) ==
    [y \in Rows |-> [x \in Cols |-> IF IsZero(od[y][x]) THEN Floor ELSE od[y][x]]]

\* AnalysRegion with the column slice left out: OD[roi_y_end:roi_y_start, :]
AnalysRegionAllColumns(roi) == SliceIdx(roi[4], roi[3], H) \X Cols

\* roi_OD = OD[roi_y_end:roi_y_start, roi_x_start:roi_x_end], as a set of <<y, x>>
AnalysRegion(roi) == SliceIdx(roi[4], roi[3], H) \X SliceIdx(roi[1], roi[2], W)

\* density = roi_OD / cross_section; number_atoms = np.sum(density * pitch**2).
\* The value is od_sum * pixel_area / cross_section; it is kept as these three
\* factors because the product of a sum holding a 1e-6 term with the constants
\* has no 32-bit numerator.
NumberAtoms(od, roi) ==
    [od_sum |-> SumOver(od, AnalysRegion(roi)),
     pixel_area |-> pixel_pitch_e8 * pixel_pitch_e8,
     cross_section |-> cross_section_e16]

\* initial_guess = (np.max(OD), OD.shape[1] / 2, OD.shape[0] / 2, 400, 400, 0)
InitialGuess2D(od) ==
    <<AMax(od), Rat(W, 2), Rat(H, 2), Int2F(400), Int2F(400), Zero>>

\* SolverInput2D with the solver started at the centre of the analysis ROI
SolverInput2DGuessAtROI(od, roi) ==
    [XY |-> Pos, ydata |-> od,
     initial_guess |-> <<AMax(od), Rat(roi[1] + roi[2], 2), Rat(roi[3] + roi[4], 2),
                         Int2F(400), Int2F(400), Zero>>]

\* what fit_cloud_profile_gaussian2D, with self.analys_ROI at hand, gives
\* curve_fit: the meshgrid, OD.ravel() and the initial guess
SolverInput2D(od, roi) ==
    [XY |-> Pos, ydata |-> od, initial_guess |-> InitialGuess2D(od)]

\* what fit_cloud_profile_gaussian2D computes before the solver runs, and what
\* it hands to curve_fit
Read2D(od, roi) ==
    [XY |-> SolverInput2D(od, roi).XY,
     ydata |-> SolverInput2D(od, roi).ydata,
     initial_guess |-> SolverInput2D(od, roi).initial_guess,
     number_atoms |-> NumberAtoms(od, roi), residual_data |-> None]

\* curve_fit rejects data holding NaN or inf (check_finite) with a ValueError;
\* otherwise the solver, which is not part of this repository, either returns
\* (popt, pcov) or raises RuntimeError when it finds no optimum
CurveFitOutcomes(ydata) ==
    IF \A v \in ydata : IsFinite(v) THEN {"ok", "RuntimeError"} ELSE {"ValueError"}

\* the pcov of a curve_fit that returns.  On data that are all 0 both fits
\* start at amplitude np.max = 0, where the model already equals the data and
\* every derivative but the one with respect to the amplitude is 0: the
\* Jacobian has no full rank and pcov comes back filled with inf.  On other
\* data its finiteness is the solver's affair.
PCov(ydata) ==
    IF \A v \in ydata : IsZero(v) THEN "inf" ELSE "solver"

\* ------------------------------------------------------------------ inputs
Pix == {0} \cup {Pow10(k) : k \in 0..MaxExp}

\* camera frames: unit intensity everywhere, or everywhere but at one pixel
\* (a dead pixel, or one of another intensity)
Images ==
    {[y \in Rows |-> [x \in Cols |-> Int2F(1)]]} \cup
    {[y \in Rows |-> [x \in Cols |-> Int2F(IF <<y, x>> = p THEN v ELSE 1)]] :
        p \in Pos, v \in Pix \ {1}}

\* ROI lists [x_start, x_end, y_start, y_end] with coordinates on the image
ROIs == (0..W) \X (0..W) \X (0..H) \X (0..H)

\* the normalization ROIs among them: start <= end on both axes, as main.py
\* and runningclasses.py give them (start = end selects nothing)
NormROIs == {r \in ROIs : r[1] <= r[2] /\ r[3] <= r[4]}

\* ------------------------------------------------------------------- state
VARIABLES
    dark_image, bright_image, analys_ROI, normalization_ROI, \* AnalyseOD fields
    calls,                    \* calculate_OD invocations that returned
    od_err,                   \* the exception calculate_OD raised, "" for none
    dark_entry,               \* self.dark_image on entry to the last invocation
    mean_value, normalized_dark_image, normalized_bright_image,
    mask, optical_density, max_OD,     \* locals of the last invocation
    OD,                       \* the array the caller holds (main.py's OD)
    OD_passed,                \* its contents when the caller first had it
    pc1D, err1D, fit1D,       \* fit_cloud_profile_gaussian1D: position,
                              \* exception raised, data handed to curve_fit
    pc2D, err2D, fit2D,       \* the same for fit_cloud_profile_gaussian2D
    pcov1D, pcov2D            \* the covariances curve_fit returned to each fit

VARIABLES
    stopAcquisition, imagesAcquired,   \* GuppyPro's Events
    n_images,                 \* GuppyPro.n_images
    res,                      \* startAcquisition's list of frames
    streaming,                \* between start_streaming and the end of the
                              \* with-block: the handler can be called
    TIMEOUT,                  \* startAcquisition's argument: "None" or "finite"
    img,                      \* what startAcquisition returned: None, or the
                              \* list held in a 1-tuple (None is <<>>)
    current_images,           \* MainWindow.current_images
    requestStop,              \* Worker.requestStop
    interruptionRequested,    \* QThread's flag, set by requestInterruption()
    wpc, hpc, gpc             \* positions: Worker thread, frame handler, GUI

VARIABLES
    isReadyForCapture, isStopped,      \* VimbaDaemon's Events
    stopVimba,                \* the Event self.stopVimba refers to: the number
                              \* of the instance it was created for, 0 while
                              \* the attribute does not exist
    events_set,               \* the stopVimba Events that are set
    inst,                     \* Vimba instances opened so far
    vimba_open,               \* inside "with Vimba.get_instance()"
    dpc, cpc,                 \* positions: daemon thread, its owner
    ops,                      \* stop() and restart() calls made
    ready_inst,               \* the instance that last set isReadyForCapture
    restart_inst,             \* the instance open when restart() was last called
    stop_inst,                \* the instance open when stop() was last called
                              \* with isReadyForCapture set
    stopped_inst              \* the instance that last set isStopped

acqvars == <<stopAcquisition, imagesAcquired, n_images, res, streaming, TIMEOUT,
             img, current_images, requestStop, interruptionRequested,
             wpc, hpc, gpc>>

daemonvars == <<isReadyForCapture, isStopped, stopVimba, events_set, inst,
                vimba_open, dpc, cpc, ops, ready_inst, restart_inst, stop_inst,
                stopped_inst>>

odvars == <<dark_image, bright_image, analys_ROI, normalization_ROI, calls, od_err,
            dark_entry, mean_value, normalized_dark_image,
            normalized_bright_image, mask, optical_density, max_OD>>

fitvars == <<OD_passed, pc1D, err1D, fit1D, pc2D, err2D, fit2D, pcov1D, pcov2D>>

vars == <<odvars, OD, fitvars, acqvars, daemonvars>>

\* GuppyPro.__init__ and Worker.__init__: no acquisition started
NoAcquisition ==
    /\ stopAcquisition = FALSE /\ imagesAcquired = FALSE
    /\ n_images = 0 /\ res = <<>> /\ streaming = FALSE
    /\ img = None /\ current_images = None
    /\ requestStop = FALSE /\ interruptionRequested = FALSE
    /\ hpc = "idle"

\* no VimbaDaemon thread
NoDaemon ==
    /\ isReadyForCapture = FALSE /\ isStopped = FALSE
    /\ stopVimba = 0 /\ events_set = {} /\ inst = 0 /\ vimba_open = FALSE
    /\ dpc = "none" /\ cpc = "none" /\ ops = 0
    /\ ready_inst = 0 /\ restart_inst = 0 /\ stop_inst = 0 /\ stopped_inst = 0

\* no camera: src/main.py and src/runningclasses.py use neither GuppyPro nor
\* the daemon
NoCamera ==
    /\ NoAcquisition
    /\ TIMEOUT = "None" /\ wpc = "none" /\ gpc = "none"
    /\ NoDaemon

NoFitYet ==
    /\ pc1D = "idle" /\ err1D = "" /\ fit1D = None
    /\ pc2D = "idle" /\ err2D = "" /\ fit2D = None
    /\ pcov1D = None /\ pcov2D = None

\* AnalyseOD(images=[dark, bright], normalization_ROI=n_ROI)
Init ==
    /\ dark_image \in Images
    /\ bright_image \in Images
    /\ normalization_ROI \in NormROIs
    /\ analys_ROI = None
    /\ calls = 0
    /\ od_err = ""
    /\ dark_entry = None
    /\ mean_value = None
    /\ normalized_dark_image = None
    /\ normalized_bright_image = None
    /\ mask = None
    /\ optical_density = None
    /\ max_OD = None
    /\ OD = None
    /\ OD_passed = None
    /\ NoFitYet
    /\ NoCamera

\* OD = aod.calculate_OD(): the statements of CalcOD in the order of the source
CalculateOD ==
    /\ calls < MaxCalls
    /\ CalcODError(ShapeOf(dark_image), ShapeOf(bright_image)) = ""
    /\ dark_entry' = dark_image
    /\ mean_value' = MeanOver(dark_image, NormRegion(normalization_ROI))
    /\ normalized_dark_image' = NormalizedDark(dark_image, mean_value')
    /\ normalized_bright_image' = NormalizedBright(bright_image, mean_value')
    /\ dark_image' = ClampDark(dark_image)
    /\ mask' = ValidMask(normalized_dark_image',
                         BroadcastTo(normalized_bright_image', ShapeOf(dark_image)))
    /\ optical_density' = RawOD(normalized_dark_image',
                                BroadcastTo(normalized_bright_image',
                                            ShapeOf(dark_image)), mask')
    /\ max_OD' = AMax(optical_density')
    /\ OD' = SubstituteMax(optical_density', max_OD')
    /\ calls' = calls + 1
    /\ UNCHANGED <<bright_image, analys_ROI, normalization_ROI, od_err, fitvars>>
    /\ UNCHANGED <<acqvars, daemonvars>>

Next == CalculateOD

Spec == Init /\ [][Next]_vars

\* ------------------------------------------- frames of different shapes
\* a bright frame of any shape up to (H+1) x (W+1), of unit intensity
ShapedImages ==
    {[y \in 0..(h - 1) |-> [x \in 0..(w - 1) |-> One]] :
        h \in 1..(H + 1), w \in 1..(W + 1)}

\* AnalyseOD(images=[dark, bright], ...) with a bright frame of its own shape
ShapeInit ==
    /\ dark_image \in Images
    /\ bright_image \in ShapedImages
    /\ normalization_ROI \in NormROIs
    /\ analys_ROI = None
    /\ calls = 0
    /\ od_err = ""
    /\ dark_entry = None
    /\ mean_value = None
    /\ normalized_dark_image = None
    /\ normalized_bright_image = None
    /\ mask = None
    /\ optical_density = None
    /\ max_OD = None
    /\ OD = None
    /\ OD_passed = None
    /\ NoFitYet
    /\ NoCamera

\* aod.calculate_OD() ending in an exception: lines 36-44 run, then line 45
\* raises ValueError, or it builds the mask at the broadcast shape, line 47
\* allocates the map and line 48 raises IndexError
CalculateOD_Raise ==
    /\ od_err = ""
    /\ CalcODError(ShapeOf(dark_image), ShapeOf(bright_image)) # ""
    /\ dark_entry' = dark_image
    /\ mean_value' = MeanOver(dark_image, NormRegion(normalization_ROI))
    /\ normalized_dark_image' = NormalizedDark(dark_image, mean_value')
    /\ normalized_bright_image' = NormalizedBright(bright_image, mean_value')
    /\ dark_image' = ClampDark(dark_image)
    /\ od_err' = CalcODError(ShapeOf(dark_image), ShapeOf(bright_image))
    /\ IF od_err' = "ValueError"
       THEN UNCHANGED <<mask, optical_density>>
       ELSE /\ mask' = ValidMask(normalized_dark_image',
                                 BroadcastTo(normalized_bright_image',
                                             ShapeOf(dark_image)))
            /\ optical_density' = [y \in Rows |-> [x \in Cols |-> Zero]]
    /\ UNCHANGED <<bright_image, analys_ROI, normalization_ROI, calls, max_OD,
                   OD, fitvars>>
    /\ UNCHANGED <<acqvars, daemonvars>>

ShapeNext == CalculateOD \/ CalculateOD_Raise

ShapeSpec == ShapeInit /\ [][ShapeNext]_vars

\* ------------------------------------------------- the fits on one OD map
\* normalization over the whole frame
FullROI == <<0, W, 0, H>>

\* the maps calculate_OD returns for the bounded frames
ODMaps == {CalcOD(d, b, FullROI).ret : d \in Images, b \in Images}

UnitImage == [y \in Rows |-> [x \in Cols |-> One]]

\* an AnalyseOD object built with an analysis ROI, and an OD map its caller
\* passes to the fits.  The fits read only analys_ROI and their argument, so
\* the object's frames are held at the unit frame.
FitInit ==
    /\ OD \in ODMaps
    /\ dark_image = UnitImage
    /\ bright_image = UnitImage
    /\ analys_ROI \in ROIs
    /\ normalization_ROI = None
    /\ calls = 0
    /\ od_err = ""
    /\ dark_entry = None
    /\ mean_value = None
    /\ normalized_dark_image = None
    /\ normalized_bright_image = None
    /\ mask = None
    /\ optical_density = None
    /\ max_OD = None
    /\ OD_passed = OD
    /\ NoFitYet
    /\ NoCamera

ValuesOf(v) == {v[i] : i \in DOMAIN v}
AllValues(od) == {od[p[1]][p[2]] : p \in Pos}

\* fit_cloud_profile_gaussian1D, lines 60-82: slices, guesses, the two curve_fit
Fit1D_Fit ==
    /\ pc1D = "idle"
    /\ LET roi == analys_ROI
       IN  IF ~IndexOK(roi[2] - roi[1], H) \/ ~IndexOK(roi[3] - roi[4], W)
           THEN /\ pc1D' = "raised"
                /\ err1D' = "IndexError"
                /\ UNCHANGED <<fit1D, pcov1D>>
           ELSE LET rd == Read1D(OD, roi)
                IN  \E ox \in CurveFitOutcomes(ValuesOf(rd.OD_x)),
                       oy \in CurveFitOutcomes(ValuesOf(rd.OD_y)) :
                        /\ fit1D' = rd
                        /\ IF ox = "ok" /\ oy = "ok"
                           THEN /\ pc1D' = "fitted"
                                /\ pcov1D' = <<PCov(ValuesOf(rd.OD_x)),
                                               PCov(ValuesOf(rd.OD_y))>>
                                /\ UNCHANGED err1D
                           ELSE /\ pc1D' = "raised"
                                /\ err1D' = IF ox # "ok" THEN ox ELSE oy
                                /\ UNCHANGED pcov1D
    /\ UNCHANGED <<odvars, OD, OD_passed, pc2D, err2D, fit2D, pcov2D>>
    /\ UNCHANGED <<acqvars, daemonvars>>

\* line 96: determine_uncertainty on the view OD[int((y_end - y_start) / 2), :]
Fit1D_UncertaintyX ==
    /\ pc1D = "fitted"
    /\ LET i == HalfTrunc(analys_ROI[4] - analys_ROI[3])
       IN  IF ~IndexOK(i, H)
           THEN /\ pc1D' = "raised"
                /\ err1D' = "IndexError"
                /\ UNCHANGED <<OD, fit1D>>
           ELSE /\ fit1D' = [fit1D EXCEPT !.OD_prof_x = RowOf(OD, UncRow(analys_ROI))]
                /\ OD' = ClampRow(OD, UncRow(analys_ROI))
                /\ pc1D' = "unc_x"
                /\ UNCHANGED err1D
    /\ UNCHANGED <<odvars, OD_passed, pc2D, err2D, fit2D, pcov1D, pcov2D>>
    /\ UNCHANGED <<acqvars, daemonvars>>

\* line 97: determine_uncertainty on the view OD[:, int((x_end - x_start) / 2)],
\* then the return
Fit1D_UncertaintyY ==
    /\ pc1D = "unc_x"
    /\ LET i == HalfTrunc(analys_ROI[2] - analys_ROI[1])
       IN  IF ~IndexOK(i, W)
           THEN /\ pc1D' = "raised"
                /\ err1D' = "IndexError"
                /\ UNCHANGED <<OD, fit1D>>
           ELSE /\ fit1D' = [fit1D EXCEPT !.OD_prof_y = ColOf(OD, UncCol(analys_ROI))]
                /\ OD' = ClampCol(OD, UncCol(analys_ROI))
                /\ pc1D' = "returned"
                /\ UNCHANGED err1D
    /\ UNCHANGED <<odvars, OD_passed, pc2D, err2D, fit2D, pcov1D, pcov2D>>
    /\ UNCHANGED <<acqvars, daemonvars>>

\* fit_cloud_profile_gaussian2D, lines 113-136: ROI sub-array, atom count,
\* initial guess, curve_fit over the whole map
Fit2D_Fit ==
    /\ pc2D = "idle"
    /\ \E o \in CurveFitOutcomes(AllValues(OD)) :
        /\ fit2D' = Read2D(OD, analys_ROI)
        /\ IF o = "ok"
           THEN pc2D' = "fitted" /\ pcov2D' = PCov(AllValues(OD)) /\ UNCHANGED err2D
           ELSE pc2D' = "raised" /\ err2D' = o /\ UNCHANGED pcov2D
    /\ UNCHANGED <<odvars, OD, OD_passed, pc1D, err1D, fit1D, pcov1D>>
    /\ UNCHANGED <<acqvars, daemonvars>>

\* lines 139-149: residuals, OD[OD == 0] = 1e-6, chi squared, the return
Fit2D_Uncertainty ==
    /\ pc2D = "fitted"
    /\ fit2D' = [fit2D EXCEPT !.residual_data = OD]
    /\ OD' = ClampAll(OD)
    /\ pc2D' = "returned"
    /\ UNCHANGED <<odvars, OD_passed, pc1D, err1D, fit1D, err2D, pcov1D, pcov2D>>
    /\ UNCHANGED <<acqvars, daemonvars>>

FitNext ==
    \/ Fit1D_Fit
    \/ Fit1D_UncertaintyX
    \/ Fit1D_UncertaintyY
    \/ Fit2D_Fit
    \/ Fit2D_Uncertainty

FitSpec == FitInit /\ [][FitNext]_vars

\* ------------------------------------------------- the acquisition loop
analysisvars == <<odvars, OD, fitvars>>

NoAnalysis ==
    /\ dark_image = None /\ bright_image = None
    /\ analys_ROI = None /\ normalization_ROI = None
    /\ calls = 0 /\ od_err = "" /\ dark_entry = None /\ mean_value = None
    /\ normalized_dark_image = None /\ normalized_bright_image = None
    /\ mask = None /\ optical_density = None /\ max_OD = None
    /\ OD = None /\ OD_passed = None
    /\ NoFitYet

\* MainWindow.start_acquisition has started a Worker (start_thread, lines
\* 260-269); the Worker passes no TIMEOUT, startAcquisition's signature lets
\* a caller give one
AcqInit ==
    /\ NoAnalysis
    /\ NoDaemon
    /\ NoAcquisition
    /\ TIMEOUT \in {"None", "finite"}
    /\ wpc = "loop"
    /\ gpc = "running"

\* Worker.run line 19, _acquire_images line 251, startAcquisition lines
\* 210-230: reset, clear both Events, open the camera, start streaming
W_Begin ==
    /\ wpc = "loop"
    /\ res' = <<>>
    /\ n_images' = 0
    /\ stopAcquisition' = FALSE
    /\ imagesAcquired' = FALSE
    /\ streaming' = TRUE
    /\ wpc' = "wait"
    /\ UNCHANGED <<TIMEOUT, img, current_images, requestStop,
                   interruptionRequested, hpc, gpc>>
    /\ UNCHANGED <<analysisvars, daemonvars>>

\* lines 231-232: stopAcquisition.wait(timeout=TIMEOUT) returns, because the
\* Event is set or because a finite TIMEOUT has run out; stopAcquisition.set()
W_Wake ==
    /\ wpc = "wait"
    /\ stopAcquisition \/ TIMEOUT = "finite"
    /\ stopAcquisition' = TRUE
    /\ wpc' = "woke"
    /\ UNCHANGED <<imagesAcquired, n_images, res, streaming, TIMEOUT, img,
                   current_images, requestStop, interruptionRequested, hpc, gpc>>
    /\ UNCHANGED <<analysisvars, daemonvars>>

\* lines 234-239: no frame, nothing to return; else imagesAcquired.set(),
\* stopAcquisition.clear()
W_Check ==
    /\ wpc = "woke"
    /\ IF n_images = 0
       THEN /\ img' = None
            /\ wpc' = "closing"
            /\ UNCHANGED <<imagesAcquired, stopAcquisition>>
       ELSE /\ imagesAcquired' = TRUE
            /\ stopAcquisition' = FALSE
            /\ wpc' = "collect"
            /\ UNCHANGED img
    /\ UNCHANGED <<n_images, res, streaming, TIMEOUT, current_images,
                   requestStop, interruptionRequested, hpc, gpc>>
    /\ UNCHANGED <<analysisvars, daemonvars>>

\* lines 240-241: the returned list is built from res as it is now
W_Collect ==
    /\ wpc = "collect"
    /\ img' = <<res>>
    /\ wpc' = "closing"
    /\ UNCHANGED <<stopAcquisition, imagesAcquired, n_images, res, streaming,
                   TIMEOUT, current_images, requestStop, interruptionRequested,
                   hpc, gpc>>
    /\ UNCHANGED <<analysisvars, daemonvars>>

\* the end of "with self.camera as cam" (line 226): the camera is closed,
\* which stops the streaming once no handler call is under way; the return
W_Close ==
    /\ wpc = "closing"
    /\ hpc = "idle"
    /\ streaming' = FALSE
    /\ wpc' = "got"
    /\ UNCHANGED <<stopAcquisition, imagesAcquired, n_images, res, TIMEOUT, img,
                   current_images, requestStop, interruptionRequested, hpc, gpc>>
    /\ UNCHANGED <<analysisvars, daemonvars>>

\* _acquire_images lines 252-255 and refreshImage line 212, which reads
\* current_images[1] and current_images[0]: an IndexError for a shorter list,
\* caught by Worker.run line 28, which ends the thread
W_Refresh ==
    /\ wpc = "got"
    /\ IF img = None
       THEN wpc' = "check" /\ UNCHANGED current_images
       ELSE /\ current_images' = img
            /\ wpc' = IF Len(img[1]) < 2 THEN "crashed" ELSE "check"
    /\ UNCHANGED <<stopAcquisition, imagesAcquired, n_images, res, streaming,
                   TIMEOUT, img, requestStop, interruptionRequested, hpc, gpc>>
    /\ UNCHANGED <<analysisvars, daemonvars>>

\* Worker.run lines 23-26: if self.requestStop: break
W_CheckStop ==
    /\ wpc = "check"
    /\ wpc' = IF requestStop THEN "exited" ELSE "loop"
    /\ UNCHANGED <<stopAcquisition, imagesAcquired, n_images, res, streaming,
                   TIMEOUT, img, current_images, requestStop,
                   interruptionRequested, hpc, gpc>>
    /\ UNCHANGED <<analysisvars, daemonvars>>

\* handler line 220, called by the streaming thread for a frame:
\* self.n_images += 1
H_Count ==
    /\ streaming
    /\ hpc = "idle"
    /\ n_images < MaxFrames
    /\ n_images' = n_images + 1
    /\ hpc' = "append"
    /\ UNCHANGED <<stopAcquisition, imagesAcquired, res, streaming, TIMEOUT, img,
                   current_images, requestStop, interruptionRequested, wpc, gpc>>
    /\ UNCHANGED <<analysisvars, daemonvars>>

\* handler lines 221-224: res.append(frame); at the N_IMAGES-th frame
\* stopAcquisition.set(); queue_frame.  A frame is its number.
H_Append ==
    /\ hpc = "append"
    /\ res' = Append(res, n_images)
    /\ stopAcquisition' = IF n_images = N_IMAGES THEN TRUE ELSE stopAcquisition
    /\ hpc' = "idle"
    /\ UNCHANGED <<imagesAcquired, n_images, streaming, TIMEOUT, img,
                   current_images, requestStop, interruptionRequested, wpc, gpc>>
    /\ UNCHANGED <<analysisvars, daemonvars>>

\* MainWindow.stop_acquisition line 294: self.camera.stopAcquisition.set()
G_Set ==
    /\ gpc = "running"
    /\ stopAcquisition' = TRUE
    /\ gpc' = "stop_thread"
    /\ UNCHANGED <<imagesAcquired, n_images, res, streaming, TIMEOUT, img,
                   current_images, requestStop, interruptionRequested, wpc, hpc>>
    /\ UNCHANGED <<analysisvars, daemonvars>>

\* stop_thread lines 276-282: for a running Worker requestInterruption(),
\* wait(1000), which gives up after a second, and quit(), which ends an
\* event loop Worker.run never enters; requestStop is not assigned (line 279
\* is a comment)
G_StopThread ==
    /\ gpc = "stop_thread"
    /\ interruptionRequested' =
           IF wpc \notin {"exited", "crashed"} THEN TRUE ELSE interruptionRequested
    /\ gpc' = "stopped"
    /\ UNCHANGED <<stopAcquisition, imagesAcquired, n_images, res, streaming,
                   TIMEOUT, img, current_images, requestStop, wpc, hpc>>
    /\ UNCHANGED <<analysisvars, daemonvars>>

WorkerNext ==
    W_Begin \/ W_Wake \/ W_Check \/ W_Collect \/ W_Close \/ W_Refresh \/ W_CheckStop

HandlerNext == H_Count \/ H_Append

GuiNext == G_Set \/ G_StopThread

AcqNext == WorkerNext \/ HandlerNext \/ GuiNext

AcqSpec == AcqInit /\ [][AcqNext]_vars

\* the threads are scheduled, the camera keeps being triggered, and a
\* stop_acquisition that has begun runs to its end
AcqFairSpec ==
    /\ AcqSpec
    /\ WF_vars(WorkerNext)
    /\ WF_vars(HandlerNext)
    /\ WF_vars(G_StopThread)

\* ------------------------------------------------------ the Vimba daemon
\* VimbaDaemon.__init__ lines 38-51: the two Events, self.start(), and the
\* owner waiting for isReadyForCapture; no stopVimba attribute yet
DaemonInit ==
    /\ NoAnalysis
    /\ NoAcquisition
    /\ TIMEOUT = "None" /\ wpc = "none" /\ gpc = "none"
    /\ isReadyForCapture = FALSE /\ isStopped = FALSE
    /\ stopVimba = 0 /\ events_set = {} /\ inst = 0 /\ vimba_open = FALSE
    /\ dpc = "open" /\ cpc = "init_wait" /\ ops = 0
    /\ ready_inst = 0 /\ restart_inst = 0 /\ stop_inst = 0 /\ stopped_inst = 0

\* run line 85: with Vimba.get_instance() as self.vimba
D_Open ==
    /\ dpc = "open"
    /\ inst < MaxInstances
    /\ inst' = inst + 1
    /\ vimba_open' = TRUE
    /\ dpc' = "set_ready"
    /\ UNCHANGED <<isReadyForCapture, isStopped, stopVimba, events_set, cpc, ops,
                   ready_inst, restart_inst, stop_inst, stopped_inst>>
    /\ UNCHANGED <<analysisvars, acqvars>>

\* run line 87: self.isReadyForCapture.set()
D_Ready ==
    /\ dpc = "set_ready"
    /\ isReadyForCapture' = TRUE
    /\ ready_inst' = inst
    /\ dpc' = "new_event"
    /\ UNCHANGED <<isStopped, stopVimba, events_set, inst, vimba_open, cpc, ops,
                   restart_inst, stop_inst, stopped_inst>>
    /\ UNCHANGED <<analysisvars, acqvars>>

\* run line 89: self.stopVimba = threading.Event(), a new Event, not set
D_NewEvent ==
    /\ dpc = "new_event"
    /\ stopVimba' = inst
    /\ dpc' = "wait"
    /\ UNCHANGED <<isReadyForCapture, isStopped, events_set, inst, vimba_open,
                   cpc, ops, ready_inst, restart_inst, stop_inst, stopped_inst>>
    /\ UNCHANGED <<analysisvars, acqvars>>

\* run line 90 and the end of the with-block: self.stopVimba.wait(None)
\* returns once that Event is set; the Vimba instance is closed
D_Wait ==
    /\ dpc = "wait"
    /\ stopVimba \in events_set
    /\ vimba_open' = FALSE
    /\ dpc' = "set_stopped"
    /\ UNCHANGED <<isReadyForCapture, isStopped, stopVimba, events_set, inst,
                   cpc, ops, ready_inst, restart_inst, stop_inst, stopped_inst>>
    /\ UNCHANGED <<analysisvars, acqvars>>

\* run line 93: self.isStopped.set()
D_SetStopped ==
    /\ dpc = "set_stopped"
    /\ isStopped' = TRUE
    /\ stopped_inst' = inst
    /\ dpc' = "clear_ready"
    /\ UNCHANGED <<isReadyForCapture, stopVimba, events_set, inst, vimba_open,
                   cpc, ops, ready_inst, restart_inst, stop_inst>>
    /\ UNCHANGED <<analysisvars, acqvars>>

\* run line 94: self.isReadyForCapture.clear(), and back to line 82
D_ClearReady ==
    /\ dpc = "clear_ready"
    /\ isReadyForCapture' = FALSE
    /\ dpc' = "open"
    /\ UNCHANGED <<isStopped, stopVimba, events_set, inst, vimba_open, cpc, ops,
                   ready_inst, restart_inst, stop_inst, stopped_inst>>
    /\ UNCHANGED <<analysisvars, acqvars>>

\* __init__ line 51: self.isReadyForCapture.wait(timeout=TIMEOUT) returns,
\* the Event set or the 15 s over
C_InitDone ==
    /\ cpc = "init_wait"
    /\ cpc' = "idle"
    /\ UNCHANGED <<isReadyForCapture, isStopped, stopVimba, events_set, inst,
                   vimba_open, dpc, ops, ready_inst, restart_inst, stop_inst,
                   stopped_inst>>
    /\ UNCHANGED <<analysisvars, acqvars>>

\* stop lines 96-98: self.stopVimba.set() on the Event the attribute refers
\* to now; AttributeError while run has not yet created one
StopCall ==
    /\ stop_inst' = IF isReadyForCapture THEN inst ELSE stop_inst
    /\ events_set' = IF stopVimba = 0 THEN events_set
                     ELSE events_set \cup {stopVimba}
    /\ ops' = ops + 1

C_Stop ==
    /\ cpc = "idle"
    /\ ops < MaxOps
    /\ StopCall
    /\ cpc' = IF stopVimba = 0 THEN "raised" ELSE "idle"
    /\ UNCHANGED <<isReadyForCapture, isStopped, stopVimba, inst, vimba_open,
                   dpc, ready_inst, restart_inst, stopped_inst>>
    /\ UNCHANGED <<analysisvars, acqvars>>

\* restart line 104: self.stop()
C_RestartStop ==
    /\ cpc = "idle"
    /\ ops < MaxOps
    /\ StopCall
    /\ restart_inst' = inst
    /\ cpc' = IF stopVimba = 0 THEN "raised" ELSE "restart_wait"
    /\ UNCHANGED <<isReadyForCapture, isStopped, stopVimba, inst, vimba_open,
                   dpc, ready_inst, stopped_inst>>
    /\ UNCHANGED <<analysisvars, acqvars>>

\* restart line 105: self.isStopped.wait(timeout=timeout) returns, the Event
\* set or the 10 s over
C_RestartWait ==
    /\ cpc = "restart_wait"
    /\ cpc' = "restart_clear"
    /\ UNCHANGED <<isReadyForCapture, isStopped, stopVimba, events_set, inst,
                   vimba_open, dpc, ops, ready_inst, restart_inst, stop_inst,
                   stopped_inst>>
    /\ UNCHANGED <<analysisvars, acqvars>>

\* restart line 107: self.isStopped.clear(), and the return
C_RestartClear ==
    /\ cpc = "restart_clear"
    /\ isStopped' = FALSE
    /\ cpc' = "idle"
    /\ UNCHANGED <<isReadyForCapture, stopVimba, events_set, inst, vimba_open,
                   dpc, ops, ready_inst, restart_inst, stop_inst, stopped_inst>>
    /\ UNCHANGED <<analysisvars, acqvars>>

DaemonThread ==
    D_Open \/ D_Ready \/ D_NewEvent \/ D_Wait \/ D_SetStopped \/ D_ClearReady

OwnerThread ==
    C_InitDone \/ C_Stop \/ C_RestartStop \/ C_RestartWait \/ C_RestartClear

DaemonNext == DaemonThread \/ OwnerThread

DaemonSpec == DaemonInit /\ [][DaemonNext]_vars

\* the daemon thread is scheduled, and a restart() that has begun runs on
DaemonFairSpec ==
    /\ DaemonSpec
    /\ WF_vars(DaemonThread)
    /\ WF_vars(C_RestartWait \/ C_RestartClear)

\* ---------------------------------------------------- claims: calculate_OD
Returned == calls > 0
At(arr, p) == arr[p[1]][p[2]]

\* v is a value of the map and no value of the map is greater
IsMaxOf(v, arr) ==
    /\ \E p \in Pos : At(arr, p) = v
    /\ \A p \in Pos : ~FLess(v, At(arr, p))

\* C1: in the returned map every pixel whose OD before the substitution is
\* exactly 0 holds the maximum pre-substitution OD of the whole map, and every
\* pixel whose pre-substitution OD is non-zero keeps its value.
C1_MaxSubstitution ==
    Returned =>
        \A p \in Pos :
            /\ IsZero(At(optical_density, p)) => IsMaxOf(At(OD, p), optical_density)
            /\ NonZero(At(optical_density, p)) => At(OD, p) = At(optical_density, p)

\* a map with a zero pixel, a non-zero pixel and a maximum other than 0
C1_Witness ==
    /\ Returned
    /\ \E p, q \in Pos :
        /\ IsZero(At(optical_density, p))
        /\ NonZero(At(optical_density, q))
        /\ NonZero(At(OD, p))

NonZeroCells(arr) == {p \in Pos : NonZero(At(arr, p))}

\* C2 as stated: when the pre-substitution map has exactly one non-zero cell,
\* whatever its value, every cell that was zero equals that cell's value in
\* the output.
C2_OneCellAnyValue ==
    (Returned /\ Cardinality(NonZeroCells(optical_density)) = 1) =>
        \A p \in Pos, q \in NonZeroCells(optical_density) :
            IsZero(At(optical_density, p)) => At(OD, p) = At(optical_density, q)

\* C2 amended: when the pre-substitution map has exactly one non-zero cell and
\* that cell is positive, every cell that was zero equals that cell's value in
\* the output; when that cell is negative the zero cells stay 0.
C2_OneCellBySign ==
    (Returned /\ Cardinality(NonZeroCells(optical_density)) = 1) =>
        \A p \in Pos, q \in NonZeroCells(optical_density) :
            IsZero(At(optical_density, p)) =>
                At(OD, p) = IF FLess(Zero, At(optical_density, q))
                            THEN At(optical_density, q) ELSE Zero

\* exactly one non-zero cell, and it is positive
C2_Witness ==
    /\ Returned
    /\ Cardinality(NonZeroCells(optical_density)) = 1
    /\ \E q \in Pos : FLess(Zero, At(optical_density, q))

\* C6: calculate_OD leaves the object's dark_image, bright_image, analys_ROI
\* and normalization_ROI as they were before the call.
C6_NoSideEffect ==
    [][UNCHANGED <<dark_image, bright_image, analys_ROI, normalization_ROI>>]_vars

\* C7: at every pixel whose dark intensity is exactly 0 on entry, the dark
\* value that enters the mask and the ratio is the normalised floor 1e-6 / mean.
C7_DarkClampedBeforeRatio ==
    Returned =>
        \A p \in Pos :
            IsZero(At(dark_entry, p)) =>
                At(normalized_dark_image, p) = FDiv(Floor, mean_value)

\* C8: before the substitution a pixel's OD is log10(normalized_bright /
\* normalized_dark) if and only if both normalised values are non-zero; every
\* other pixel is exactly 0.
C8_ValidityMask ==
    Returned =>
        \A p \in Pos :
            LET nd    == At(normalized_dark_image, p)
                nb    == At(normalized_bright_image, p)
                valid == NonZero(nd) /\ NonZero(nb)
            IN  /\ (At(optical_density, p) = Log10(FDiv(nb, nd))) <=> valid
                /\ ~valid => IsZero(At(optical_density, p))

\* a valid pixel of non-zero OD beside an invalid pixel
C8_Witness ==
    /\ Returned
    /\ \E p, q \in Pos :
        /\ NonZero(At(normalized_dark_image, p))
        /\ NonZero(At(normalized_bright_image, p))
        /\ NonZero(At(optical_density, p))
        /\ IsZero(At(normalized_dark_image, q)) \/ IsZero(At(normalized_bright_image, q))

Scale(c, image) == [y \in Rows |-> [x \in Cols |-> FMul(Int2F(c), image[y][x])]]
MeanUsable == IsFinite(mean_value) /\ NonZero(mean_value)

\* C9: for every positive constant c and every image pair whose normalization
\* ROI mean is non-zero, calculate_OD on (c*dark, c*bright) returns the map
\* that calculate_OD on (dark, bright) returns.
C9_ScaleInvariant ==
    (Returned /\ MeanUsable) =>
        \A c \in 1..MaxScale :
            CalcOD(Scale(c, dark_entry), Scale(c, bright_image),
                   normalization_ROI).ret = OD

\* a call with a usable mean whose map has two different values
C9_Witness ==
    /\ Returned
    /\ MeanUsable
    /\ \E p, q \in Pos : At(OD, p) # At(OD, q)

\* ------------------------------------------------------- claims: the fits
\* the pixels x_start <= x < x_end, y_start <= y < y_end
RoiRectangle(roi) ==
    {p \in Pos : roi[1] <= p[2] /\ p[2] < roi[2] /\ roi[3] <= p[1] /\ p[1] < roi[4]}

WellFormed(roi) ==
    /\ 0 <= roi[1] /\ roi[1] < roi[2] /\ roi[2] <= W
    /\ 0 <= roi[3] /\ roi[3] < roi[4] /\ roi[4] <= H

\* C3: for an analysis ROI inside the image with x_start < x_end and
\* y_start < y_end, the returned atom count is the sum of
\* OD[y][x] * pitch^2 / cross_section over exactly the pixels of the ROI
\* rectangle.
C3_CountOverRoiRectangle ==
    (pc2D = "returned" /\ WellFormed(analys_ROI)) =>
        fit2D.number_atoms =
            [od_sum |-> SumOver(fit2D.ydata, RoiRectangle(analys_ROI)),
             pixel_area |-> pixel_pitch_e8 * pixel_pitch_e8,
             cross_section |-> cross_section_e16]

\* C4: after either fit returns, every pixel of the OD array the caller passed
\* has the value it had before the call.
C4_FitsLeaveMapAlone ==
    /\ (pc2D = "returned" /\ pc1D = "idle") => OD = OD_passed
    /\ (pc1D = "returned" /\ pc2D = "idle") => OD = OD_passed

\* what each fit reads when it is the only one to run on the map od
Alone1D(od, roi) ==
    [Read1D(od, roi) EXCEPT
        !.OD_prof_x = RowOf(od, UncRow(roi)),
        !.OD_prof_y = ColOf(ClampRow(od, UncRow(roi)), UncCol(roi))]
Alone2D(od, roi) == [Read2D(od, roi) EXCEPT !.residual_data = od]

\* C5: the data each fit reads (slices, initial guesses, ROI sub-region,
\* flattened map) is the same whether the other fit ran before it, after it or
\* interleaved with it: it is what the fit reads when it runs alone on the map.
C5_FitsIndependent ==
    /\ pc1D = "returned" => fit1D = Alone1D(OD_passed, analys_ROI)
    /\ pc2D = "returned" => fit2D = Alone2D(OD_passed, analys_ROI)

\* the rectangle the four ROI coordinates delimit, whichever way round each
\* pair is given (main.py gives y_start > y_end)
Min(a, b) == IF a < b THEN a ELSE b
Max(a, b) == IF a < b THEN b ELSE a
InsideROI(roi) ==
    {p \in Pos : /\ Min(roi[1], roi[2]) <= p[2] /\ p[2] < Max(roi[1], roi[2])
                 /\ Min(roi[3], roi[4]) <= p[1] /\ p[1] < Max(roi[3], roi[4])}

DoubleInside(od, roi) ==
    [y \in Rows |-> [x \in Cols |->
        IF <<y, x>> \in InsideROI(roi) THEN FMul(Int2F(2), od[y][x]) ELSE od[y][x]]]

\* C10: for a fixed analysis ROI and fixed constants, doubling every OD value
\* inside the analysis ROI doubles the atom count the 2D fit returns.
C10_CountDoubles ==
    pc2D = "returned" =>
        NumberAtoms(DoubleInside(fit2D.ydata, analys_ROI), analys_ROI) =
            [fit2D.number_atoms EXCEPT !.od_sum = FMul(Int2F(2), @)]

\* a returned count other than 0, over a ROI that leaves out part of the map
C10_Witness ==
    /\ pc2D = "returned"
    /\ NonZero(fit2D.number_atoms.od_sum)
    /\ InsideROI(analys_ROI) # Pos
    /\ \E p \in Pos \ InsideROI(analys_ROI) : NonZero(At(fit2D.ydata, p))

\* C11: the 2D fit uses the analysis ROI only for the atom count: for one OD
\* map and any two analysis ROIs, the data points, the coordinate grid and the
\* initial guess handed to the solver are the same.  Stated where the solver
\* has just been called, on the map as passed or as a finished 1D fit left
\* it: what the solver was given is on record in fit2D.
C11_SolverInputIgnoresROI ==
    (pc2D = "fitted" /\ pc1D \in {"idle", "returned"}) =>
        \A roi \in ROIs :
            SolverInput2D(fit2D.ydata, roi) =
                [XY |-> fit2D.XY, ydata |-> fit2D.ydata,
                 initial_guess |-> fit2D.initial_guess]

\* a returned 2D fit on a map for which another ROI gives another atom count
C11_Witness ==
    /\ pc2D = "returned"
    /\ \E roi \in ROIs :
        NumberAtoms(fit2D.ydata, roi) # fit2D.number_atoms

\* arr[i] for -n <= i < n addresses element i modulo n
Wrap(i, n) == (i + n) % n

\* C12: the 1D fit fits the horizontal curve to the OD row at index
\* (x_end - x_start) and the vertical curve to the OD column at index
\* (y_start - y_end), each over the full pixel-index range 0..width-1 and
\* 0..height-1.  The map m is the caller's array as the 1D fit finds it: as
\* passed, or with the zeros the 2D fit has already overwritten.
C12_SlicesAtRoiDifferences ==
    pc1D \in {"fitted", "unc_x", "returned"} =>
        \E m \in {OD_passed, ClampAll(OD_passed)} :
            /\ fit1D.x = 0..(W - 1)
            /\ fit1D.y = 0..(H - 1)
            /\ \A x \in 0..(W - 1) :
                fit1D.OD_x[x] = m[Wrap(analys_ROI[2] - analys_ROI[1], H)][x]
            /\ \A y \in 0..(H - 1) :
                fit1D.OD_y[y] = m[y][Wrap(analys_ROI[3] - analys_ROI[4], W)]

\* a returned 1D fit for a well-formed ROI on a map whose rows differ and
\* whose columns differ, the slice indices not being the ROI midpoints
C12_Witness ==
    /\ pc1D = "returned"
    /\ WellFormed(analys_ROI)
    /\ \E r1, r2 \in Rows : RowOf(OD_passed, r1) # RowOf(OD_passed, r2)
    /\ \E c1, c2 \in Cols : ColOf(OD_passed, c1) # ColOf(OD_passed, c2)
    /\ Wrap(analys_ROI[2] - analys_ROI[1], H) # UncRow(analys_ROI)

FlatZero(od) == \A p \in Pos : IsZero(At(od, p))

\* C16: applied to a flat all-zero OD map with their default initial guesses,
\* the 1D and the 2D fit end in an explicit failure: neither returns a result
\* whose uncertainties are infinite or NaN.
C16_FlatMapFitFails ==
    FlatZero(OD_passed) =>
        /\ pc1D = "returned" => "inf" \notin {pcov1D[1], pcov1D[2]}
        /\ pc2D = "returned" => pcov2D # "inf"

\* ------------------------------------------------- claims: error handling
\* a ROI that selects no pixel: one of its two extents is 0
ZeroArea(roi) == roi[1] = roi[2] \/ roi[3] = roi[4]

\* C13: when a ROI given to calculate_OD or to a fit has zero area (or a
\* coordinate outside the image), the operation ends in an InvalidROI error
\* raised before any computation: no map is returned and no fit is made.
C13_InvalidROIRaises ==
    /\ (normalization_ROI # None /\ ZeroArea(normalization_ROI)) =>
            (~Returned /\ OD = None)
    /\ (analys_ROI # None /\ ZeroArea(analys_ROI)) =>
            (pc1D \in {"idle", "raised"} /\ pc2D \in {"idle", "raised"})

\* C14: when the normalization ROI selects an empty region or its mean is 0,
\* calculate_OD fails with an error: it never returns an OD map.
C14_DegenerateNormalizationRaises ==
    Returned => MeanUsable

\* C15: whenever the dark and the bright frame differ in shape, broadcast-
\* compatible shapes such as 1xN against MxN included, calculate_OD raises an
\* error to its caller and returns no OD map.
C15_ShapeMismatchRaises ==
    ShapeOf(dark_image) # ShapeOf(bright_image) =>
        /\ ~Returned
        /\ OD = None
        /\ dark_entry # None => od_err \in {"ValueError", "IndexError"}

\* a call on a 1xW bright frame against an HxW dark frame has raised
C15_Witness ==
    /\ ShapeOf(bright_image) = <<1, W>>
    /\ ShapeOf(dark_image) = <<H, W>>
    /\ dark_entry # None
    /\ od_err = "IndexError"

\* -------------------------------------------------- claims: the camera
WorkerLeft == wpc \in {"exited", "crashed"}

\* C17: after stop_acquisition() has been called while a Worker is running,
\* the Worker eventually leaves its run loop (and then calls _acquire_images
\* and startAcquisition no more).
C17_StopEndsWorker ==
    (gpc = "stopped" /\ interruptionRequested) ~> WorkerLeft

\* C18: whenever startAcquisition(N_IMAGES) returns a list, the list holds
\* exactly N_IMAGES frames, under every interleaving of the frame handler,
\* the TIMEOUT and an external set of stopAcquisition.
C18_ListHoldsNImages ==
    (wpc = "got" /\ img # None) => Len(img[1]) = N_IMAGES

\* C19: once restart() has returned, a caller that observes
\* isReadyForCapture set observes a Vimba instance opened after the stop:
\* the Event was last set by an instance later than the one restart() stopped.
C19_NoStaleReadiness ==
    (cpc = "idle" /\ restart_inst > 0 /\ isReadyForCapture) =>
        ready_inst > restart_inst

\* C20: every stop() call made while isReadyForCapture is set eventually
\* makes the daemon thread leave the Vimba context that was open and set
\* isStopped.
C20_StopNeverLost ==
    \A k \in 1..MaxInstances : (stop_inst = k) ~> (stopped_inst >= k)

\* ------------------------------------------- claims: the normalization ROI
\* the mean of the dark image over the region a normalization ROI selects is
\* a number other than 0
UsableROI(dark, roi) ==
    LET m == MeanOver(dark, NormRegion(roi))
    IN  IsFinite(m) /\ NonZero(m)

\* one normalization ROI with a usable mean on the dark image, the same one
\* for every ROI the object may hold: two ROIs that each give the map this one
\* gives, give the same map
ReferenceROI(dark) == CHOOSE roi \in NormROIs : UsableROI(dark, roi)

\* C21: for fixed dark and bright images, any two normalization ROIs whose
\* dark-image mean is non-zero yield the same validity mask and the same OD
\* map.  Every call that returned with a usable mean is compared with the
\* call on the same images with the reference ROI; the object's ROI ranges
\* over all normalization ROIs.
C21_RoiIndependent ==
    (Returned /\ MeanUsable) =>
        \A r \in {CalcOD(dark_entry, bright_image, ReferenceROI(dark_entry))} :
            r.mask = mask /\ r.ret = OD

\* a returned call whose map has two different values and an invalid pixel,
\* with a ROI whose mean is usable and is not the mean of the reference ROI
C21_Witness ==
    /\ Returned
    /\ MeanUsable
    /\ \E p, q \in Pos : At(OD, p) # At(OD, q)
    /\ \E p \in Pos : ~At(mask, p)
    /\ MeanOver(dark_entry, NormRegion(ReferenceROI(dark_entry))) # mean_value

\* ----------------------------------------------- claims: the slice indices
\* the indices lines 69, 70, 96 and 97 compute from the analysis ROI
SliceRowIndex(roi) == roi[2] - roi[1]
SliceColIndex(roi) == roi[3] - roi[4]
UncRowIndex(roi) == HalfTrunc(roi[4] - roi[3])
UncColIndex(roi) == HalfTrunc(roi[2] - roi[1])

\* C22: for every analysis ROI with 0 <= x_start < x_end <= width and
\* 0 <= y_start < y_end <= height, the 1D fit raises no IndexError, and the
\* row index of the horizontal slice, the column index of the vertical slice
\* and the indices of the uncertainty profiles are non-negative and inside the
\* map (0 <= row < height, 0 <= column < width).
C22_SliceIndicesInBounds ==
    (pc1D # "idle" /\ WellFormed(analys_ROI)) =>
        /\ err1D # "IndexError"
        /\ \A i \in {SliceRowIndex(analys_ROI), UncRowIndex(analys_ROI)} :
            0 <= i /\ i < H
        /\ \A i \in {SliceColIndex(analys_ROI), UncColIndex(analys_ROI)} :
            0 <= i /\ i < W

====
